---- MODULE Spec2Model ----
(***************************************************************************)
(* Ginger voice bot: the emotive TTS stage (emotive_tts_processor.py) and  *)
(* the roleplay session it reads (bot.py).                                 *)
(*                                                                         *)
(* Numbers.  Python floats are modelled in fixed point: Unit stands for    *)
(* 1.0, so 0.05 is Unit \div 20.  Intensity, tension and energy are given  *)
(* in hundredths (0..100).  Python's None is the string None for fields    *)
(* that otherwise hold strings, and the empty tuple for optional           *)
(* arguments and optional numbers (<<v>> is a present value v).            *)
(*                                                                         *)
(* Text.  A string is the sequence of its space-separated tokens, so that  *)
(* " ".join(a) + " " + b is a \o b; the empty string is <<Word("")>>.      *)
(***************************************************************************)
EXTENDS Integers, Sequences, FiniteSets, TLC

\* ------------------------------------------------------------------ bounds
\* longest emotion list handed to start_roleplay
MaxSeq == 2
\* text fragments followed within one utterance window
MaxFrags == 2
\* frames that arrive at the stage when its calls are followed step by step
MaxArrivals == 3
\* calls of process_frame that may be suspended at the same time
MaxCalls == 2

\* ------------------------------------------------------------------ state
VARIABLES
    roleplay,            \* bot._roleplay_state
    emotional,           \* bot._current_emotional_state
    tts_config,          \* tts._settings["generation_config"]
    use_ssml,            \* EmotiveTTSProcessor._use_ssml
    applied,             \* EmotiveTTSProcessor._emotion_applied_for_utterance
    in_llm_response,     \* EmotiveTTSProcessor._in_llm_response
    last,                \* what the most recent call did (observation)
    advRun,              \* advances since the last start, -1 once another
                         \* operation wrote the session (observation)
    windowFrags,         \* downstream text fragments since the last turn boundary
    windowTagged,        \* those of them pushed with a prefix
    windowFetches,       \* provider fetches since the last turn boundary
    windowUpdates,       \* update_tts_config calls since the last turn boundary
    windowFailures,      \* the calls that raised since the last turn boundary
    \* process_frame followed step by step
    inbox,               \* frames that arrived and wait for their call
    running,             \* calls suspended at `await self._get_current_state()`
    outbox,              \* the frames pushed, in push order
    fetchLog,            \* the window of each fetch started, in start order
    arrivals,            \* frames arrived so far
    windowNo,            \* turn boundaries arrived so far
    raced,               \* windows in which a fragment's call began while
                         \* another call of the window was suspended
    waited,              \* frames that arrived while a call was suspended
    \* several voice sessions in one process
    stages,              \* per run_bot call: its EmotiveTTSProcessor and its tts
    touched,             \* sessions whose handlers wrote the module globals
    \* the mapper and the encoders called as functions
    input,               \* the arguments of the call
    directive,           \* what the call returned (NoDirective before it)
    \* start-up and turn history
    mcp,                 \* initialize_mcp_clients: its position and its lists
    turn                 \* the prefix attached since the last turn boundary,
                         \* with the session it was built from (observation)

windowVars == <<windowFrags, windowTagged, windowFetches, windowUpdates, windowFailures>>
coVars == <<inbox, running, outbox, fetchLog, arrivals, windowNo, raced, waited>>
sessVars == <<stages, touched>>
mapVars == <<input, directive>>
vars == <<roleplay, emotional, tts_config, use_ssml, applied, in_llm_response,
          last, advRun, windowVars, coVars, sessVars, mapVars, mcp, turn>>
stageVars == <<tts_config, use_ssml, applied, in_llm_response, windowVars>>

\* ------------------------------------------------------------- data model
None == "None"
Unit == 6 * 100000
Tolerance == Unit \div 20
Hundredth == Unit \div 100

Min(a, b) == IF a < b THEN a ELSE b
Max(a, b) == IF a > b THEN a ELSE b
Abs(a) == IF a < 0 THEN 0 - a ELSE a

\* dict.get(key, default) on an optional value
Get(opt, default) == IF opt = <<>> THEN default ELSE opt[1]

Word(w) == [tag |-> "word", value |-> w, ratio |-> 0]
EmotionTag(e) == [tag |-> "emotion", value |-> e, ratio |-> 0]
SpeedTag(r) == [tag |-> "speed", value |-> "", ratio |-> r]
VolumeTag(r) == [tag |-> "volume", value |-> "", ratio |-> r]

\* f"{x:.2f}" and round(x, 2): the value in hundredths.  A value halfway
\* between two hundredths goes up here; Python rounds the double, which lies
\* just above or just below the half, so no property reads such a value's digits.
Fmt2(x) == (x + (Hundredth \div 2)) \div Hundredth

\* abs(x - 1.0) > 0.05.  In IEEE-754 doubles 1.05 - 1.0 and 1.0 - 0.95 both
\* evaluate above the double 0.05, so a value of exactly 1.05 or 0.95 passes.
OutsideTolerance(x) == Abs(x - Unit) >= Tolerance

PrimaryEmotion == {"joy", "sadness", "anger", "fear", "disgust", "surprise", "neutral"}

BodyStateDefaultTension == 20
BodyStateDefaultEnergy == 50

CARTESIA_EMOTION_MAP ==
    [p \in PrimaryEmotion |->
        CASE p = "joy"      -> [low |-> "content", medium |-> "happy", high |-> "excited"]
          [] p = "sadness"  -> [low |-> "disappointed", medium |-> "sad", high |-> "melancholic"]
          [] p = "anger"    -> [low |-> "frustrated", medium |-> "angry", high |-> "outraged"]
          [] p = "fear"     -> [low |-> "anxious", medium |-> "anxious", high |-> "panicked"]
          [] p = "disgust"  -> [low |-> "skeptical", medium |-> "contempt", high |-> "contempt"]
          [] p = "surprise" -> [low |-> "curious", medium |-> "surprised", high |-> "amazed"]
          [] OTHER          -> [low |-> "calm", medium |-> "neutral", high |-> "calm"]]

\* ---------------------------------------------------------- Emotion Mapper
\* EmotiveVoiceState: body_state is <<>> (None) or <<[tension, energy]>>
NeutralVoiceState ==
    [primary_emotion |-> "neutral", intensity |-> 0, nuanced_emotion |-> None,
     body_state |-> <<>>]

\* variant: mild joy gets no nuanced emotion
infer_nuanced_emotion_leaving_mild_joy(primary, intensity, body_state) ==
    CASE primary = "joy" ->
            IF intensity > 80 THEN "enthusiastic"
            ELSE IF intensity > 60 THEN "excited"
            ELSE IF body_state # <<>> /\ body_state[1].energy < 40 THEN "content"
            ELSE IF intensity > 40 THEN "happy" ELSE None
      [] primary = "sadness" ->
            IF intensity > 80 THEN "dejected"
            ELSE IF body_state # <<>> /\ body_state[1].energy < 30 THEN "disappointed"
            ELSE IF intensity > 50 THEN "melancholic" ELSE "nostalgic"
      [] primary = "anger" ->
            IF intensity > 80 THEN "outraged"
            ELSE IF intensity > 60 THEN "mad"
            ELSE "frustrated"
      [] primary = "fear" ->
            IF intensity > 80 THEN "panicked"
            ELSE IF intensity > 60 THEN "alarmed"
            ELSE "anxious"
      [] primary = "surprise" ->
            IF intensity > 70 THEN "amazed" ELSE "curious"
      [] OTHER -> None

infer_nuanced_emotion(primary, intensity, body_state) ==
    CASE primary = "joy" ->
            IF intensity > 80 THEN "enthusiastic"
            ELSE IF intensity > 60 THEN "excited"
            ELSE IF body_state # <<>> /\ body_state[1].energy < 40 THEN "content"
            ELSE IF intensity > 40 THEN "happy" ELSE "content"
      [] primary = "sadness" ->
            IF intensity > 80 THEN "dejected"
            ELSE IF body_state # <<>> /\ body_state[1].energy < 30 THEN "disappointed"
            ELSE IF intensity > 50 THEN "melancholic" ELSE "nostalgic"
      [] primary = "anger" ->
            IF intensity > 80 THEN "outraged"
            ELSE IF intensity > 60 THEN "mad"
            ELSE "frustrated"
      [] primary = "fear" ->
            IF intensity > 80 THEN "panicked"
            ELSE IF intensity > 60 THEN "alarmed"
            ELSE "anxious"
      [] primary = "surprise" ->
            IF intensity > 70 THEN "amazed" ELSE "curious"
      [] OTHER -> None

\* variant: the last entry among those of maximum intensity
PrimaryIndexLastOfTies(emotions) ==
    CHOOSE i \in 1..Len(emotions) :
        \A j \in 1..Len(emotions) :
            /\ emotions[j].intensity <= emotions[i].intensity
            /\ (j > i => emotions[j].intensity < emotions[i].intensity)

\* sorted(emotions, key=intensity, reverse=True)[0]: the sort is stable, so
\* the first entry among those of maximum intensity
PrimaryIndex(emotions) ==
    CHOOSE i \in 1..Len(emotions) :
        \A j \in 1..Len(emotions) :
            /\ emotions[j].intensity <= emotions[i].intensity
            /\ (j < i => emotions[j].intensity < emotions[i].intensity)

\* variant: a string that is no PrimaryEmotion is read as the enum's first member
PrimaryEmotionOrFirstMember(emotion_type) ==
    IF emotion_type \in PrimaryEmotion THEN emotion_type ELSE "joy"

\* try: PrimaryEmotion(emotion_type) except ValueError: PrimaryEmotion.NEUTRAL
PrimaryEmotionOrNeutral(emotion_type) ==
    IF emotion_type \in PrimaryEmotion THEN emotion_type ELSE "neutral"

map_sable_to_emotive_state(sable_state) ==
    LET emotions == sable_state.emotions
        primary == IF emotions # <<>> THEN emotions[PrimaryIndex(emotions)]
                   ELSE [type |-> "neutral", intensity |-> 0]
        primary_emotion == PrimaryEmotionOrNeutral(primary.type)
        data == sable_state.body_state
        body_state == <<[tension |-> IF data = <<>> THEN BodyStateDefaultTension
                                      ELSE data[1].tension,
                         energy |-> IF data = <<>> THEN BodyStateDefaultEnergy
                                     ELSE data[1].energy]>>
    IN  [primary_emotion |-> primary_emotion,
         intensity |-> primary.intensity,
         nuanced_emotion |->
             infer_nuanced_emotion(primary_emotion, primary.intensity, body_state),
         body_state |-> body_state]

\* variant: the low band is read as the medium band
select_cartesia_emotion_without_low_band(state) ==
    IF state.nuanced_emotion # None THEN state.nuanced_emotion
    ELSE LET mapping == CARTESIA_EMOTION_MAP[state.primary_emotion]
         IN  IF state.intensity < 70 THEN mapping.medium ELSE mapping.high

\* variant: the nuanced emotion is not looked at
select_cartesia_emotion_coarse(state) ==
    LET mapping == CARTESIA_EMOTION_MAP[state.primary_emotion]
    IN  IF state.intensity < 35 THEN mapping.low
        ELSE IF state.intensity < 70 THEN mapping.medium
        ELSE mapping.high

select_cartesia_emotion(state) ==
    IF state.nuanced_emotion # None THEN state.nuanced_emotion
    ELSE LET mapping == CARTESIA_EMOTION_MAP[state.primary_emotion]
         IN  IF state.intensity < 35 THEN mapping.low
             ELSE IF state.intensity < 70 THEN mapping.medium
             ELSE mapping.high

\* variant: normal energy leaves the speed at 1.0
calculate_speed_modifier_flat_mid(state) ==
    IF state.body_state = <<>> THEN Unit
    ELSE LET energy == state.body_state[1].energy
         IN  IF energy < 30 THEN (80 * Hundredth) + (energy * Hundredth * 15) \div 30
             ELSE IF energy > 70
                  THEN (105 * Hundredth) + ((energy - 70) * Hundredth * 25) \div 30
             ELSE Unit

calculate_speed_modifier(state) ==
    IF state.body_state = <<>> THEN Unit
    ELSE LET energy == state.body_state[1].energy
         IN  IF energy < 30 THEN (80 * Hundredth) + (energy * Hundredth * 15) \div 30
             ELSE IF energy > 70
                  THEN (105 * Hundredth) + ((energy - 70) * Hundredth * 25) \div 30
             ELSE (95 * Hundredth) + ((energy - 30) * Hundredth * 10) \div 40

\* variant: tension scales the volume below its threshold as well
calculate_volume_modifier_unthresholded(state) ==
    LET v1 == IF state.body_state # <<>>
              THEN Unit + ((state.body_state[1].tension - 60) * Hundredth) \div 2
              ELSE Unit
        v2 == IF state.intensity > 70
              THEN (v1 * (1000 + (state.intensity - 70) * 3)) \div 1000
              ELSE v1
    IN  Max(Unit \div 2, Min(2 * Unit, v2))

calculate_volume_modifier(state) ==
    LET v1 == IF state.body_state # <<>> /\ state.body_state[1].tension > 60
              THEN Unit + ((state.body_state[1].tension - 60) * Hundredth) \div 2
              ELSE Unit
        v2 == IF state.intensity > 70
              THEN (v1 * (1000 + (state.intensity - 70) * 3)) \div 1000
              ELSE v1
    IN  Max(Unit \div 2, Min(2 * Unit, v2))

\* ------------------------------------------------------- Directive Encoder
generate_ssml_prefix(state, ssml) ==
    IF ~ssml THEN <<>>
    ELSE LET speed == calculate_speed_modifier(state)
             volume == calculate_volume_modifier(state)
         IN  <<EmotionTag(select_cartesia_emotion(state))>>
             \o (IF OutsideTolerance(speed) THEN <<SpeedTag(Fmt2(speed))>> ELSE <<>>)
             \o (IF OutsideTolerance(volume) THEN <<VolumeTag(Fmt2(volume))>> ELSE <<>>)

\* variant: a speed inside the tolerance keeps the speed the TTS settings hold
generate_cartesia_config_keeping_installed_speed(state) ==
    LET speed == calculate_speed_modifier(state)
        volume == calculate_volume_modifier(state)
    IN  [emotion |-> select_cartesia_emotion(state),
         speed |-> IF OutsideTolerance(speed) THEN <<Fmt2(speed)>> ELSE tts_config.speed,
         volume |-> IF OutsideTolerance(volume) THEN <<Fmt2(volume)>> ELSE <<>>]

\* variant: the speed is always written to the config
generate_cartesia_config_always_speed(state) ==
    LET speed == calculate_speed_modifier(state)
        volume == calculate_volume_modifier(state)
    IN  [emotion |-> select_cartesia_emotion(state),
         speed |-> <<Fmt2(speed)>>,
         volume |-> IF OutsideTolerance(volume) THEN <<Fmt2(volume)>> ELSE <<>>]

generate_cartesia_config(state) ==
    LET speed == calculate_speed_modifier(state)
        volume == calculate_volume_modifier(state)
    IN  [emotion |-> select_cartesia_emotion(state),
         speed |-> IF OutsideTolerance(speed) THEN <<Fmt2(speed)>> ELSE <<>>,
         volume |-> IF OutsideTolerance(volume) THEN <<Fmt2(volume)>> ELSE <<>>]

\* emotion.lower().strip() on the strings of the model
LowerStrip(emotion) ==
    CASE emotion = "Neutral" -> "neutral"
      [] emotion = " angry" -> "angry"
      [] OTHER -> emotion

ROLEPLAY_EMOTION_MAP(e) ==
    CASE e = "angry" -> "angry"
      [] e = "defensive" -> "frustrated"
      [] e = "hostile" -> "outraged"
      [] e = "frustrated" -> "frustrated"
      [] e = "annoyed" -> "agitated"
      [] e = "mad" -> "mad"
      [] e = "outraged" -> "outraged"
      [] e = "sad" -> "sad"
      [] e = "hurt" -> "hurt"
      [] e = "disappointed" -> "disappointed"
      [] e = "melancholic" -> "melancholic"
      [] e = "worried" -> "anxious"
      [] e = "concerned" -> "anxious"
      [] e = "receptive" -> "content"
      [] e = "understanding" -> "sympathetic"
      [] e = "warm" -> "affectionate"
      [] e = "happy" -> "happy"
      [] e = "excited" -> "excited"
      [] e = "content" -> "content"
      [] e = "open" -> "content"
      [] e = "curious" -> "curious"
      [] e = "skeptical" -> "skeptical"
      [] e = "questioning" -> "curious"
      [] e = "confused" -> "confused"
      [] e = "surprised" -> "surprised"
      [] e = "shocked" -> "amazed"
      [] e = "amazed" -> "amazed"
      [] e = "dismissive" -> "contempt"
      [] e = "cold" -> "distant"
      [] e = "distant" -> "distant"
      [] OTHER -> None

map_roleplay_emotion(emotion) == ROLEPLAY_EMOTION_MAP(LowerStrip(emotion))

\* variant: the volume tag is appended before the speed tag
generate_roleplay_ssml_volume_first(emotion, speed, volume) ==
    LET cartesia_emotion == map_roleplay_emotion(emotion)
    IN  (IF cartesia_emotion # None THEN <<EmotionTag(cartesia_emotion)>> ELSE <<>>)
        \o (IF OutsideTolerance(volume) THEN <<VolumeTag(Fmt2(volume))>> ELSE <<>>)
        \o (IF OutsideTolerance(speed) THEN <<SpeedTag(Fmt2(speed))>> ELSE <<>>)

generate_roleplay_ssml(emotion, speed, volume) ==
    LET cartesia_emotion == map_roleplay_emotion(emotion)
    IN  (IF cartesia_emotion # None THEN <<EmotionTag(cartesia_emotion)>> ELSE <<>>)
        \o (IF OutsideTolerance(speed) THEN <<SpeedTag(Fmt2(speed))>> ELSE <<>>)
        \o (IF OutsideTolerance(volume) THEN <<VolumeTag(Fmt2(volume))>> ELSE <<>>)

\* -------------------------------------------------- Roleplay State Machine
RoleplayDefault ==
    [active |-> FALSE, character |-> None, character_emotion |-> None,
     scenario |-> 0, scenario_emotions |-> <<>>,
     voice_modifiers |-> [speed |-> Unit, pitch |-> "medium"]]

EmotionalDefault ==
    [emotions |-> <<>>,
     body_state |-> <<[tension |-> BodyStateDefaultTension,
                       energy |-> BodyStateDefaultEnergy]>>]

\* variant: an omitted scenario is written as 0 instead of left alone
update_roleplay_state_defaulting(st, active, character, character_emotion, scenario, scenario_emotions, voice_modifiers) ==
    [active |-> IF active # <<>> THEN active[1] ELSE st.active,
     character |-> IF character # <<>> THEN character[1] ELSE st.character,
     character_emotion |-> IF character_emotion # <<>> THEN character_emotion[1]
                           ELSE st.character_emotion,
     scenario |-> IF scenario # <<>> THEN scenario[1] ELSE 0,
     scenario_emotions |-> IF scenario_emotions # <<>> THEN scenario_emotions[1]
                           ELSE st.scenario_emotions,
     voice_modifiers |-> IF voice_modifiers # <<>> THEN voice_modifiers[1]
                         ELSE st.voice_modifiers]

\* each argument is <<>> (None, the default) or <<value>>
update_roleplay_state(st, active, character, character_emotion, scenario, scenario_emotions, voice_modifiers) ==
    [active |-> IF active # <<>> THEN active[1] ELSE st.active,
     character |-> IF character # <<>> THEN character[1] ELSE st.character,
     character_emotion |-> IF character_emotion # <<>> THEN character_emotion[1]
                           ELSE st.character_emotion,
     scenario |-> IF scenario # <<>> THEN scenario[1] ELSE st.scenario,
     scenario_emotions |-> IF scenario_emotions # <<>> THEN scenario_emotions[1]
                           ELSE st.scenario_emotions,
     voice_modifiers |-> IF voice_modifiers # <<>> THEN voice_modifiers[1]
                         ELSE st.voice_modifiers]

\* variant: a running session keeps its scenario number on restart
start_roleplay_keeping_scenario(st, character, scenario_emotions) ==
    update_roleplay_state(st, <<TRUE>>, <<character>>,
        <<IF scenario_emotions # <<>> THEN scenario_emotions[1] ELSE "neutral">>,
        <<Max(1, st.scenario)>>, <<scenario_emotions>>,
        <<[speed |-> 105 * Hundredth, pitch |-> "medium"]>>)

start_roleplay(st, character, scenario_emotions) ==
    update_roleplay_state(st, <<TRUE>>, <<character>>,
        <<IF scenario_emotions # <<>> THEN scenario_emotions[1] ELSE "neutral">>,
        <<1>>, <<scenario_emotions>>,
        <<[speed |-> 105 * Hundredth, pitch |-> "medium"]>>)

\* variant: the emotion is read at the old scenario number
advance_roleplay_scenario_stale_index(st) ==
    IF ~st.active THEN [state |-> st, ret |-> FALSE]
    ELSE LET current == st.scenario
             emotions == st.scenario_emotions
         IN  IF current < Len(emotions)
             THEN [state |-> [st EXCEPT !.scenario = current + 1,
                                        !.character_emotion = emotions[Max(1, current)]],
                   ret |-> TRUE]
             ELSE [state |-> st, ret |-> FALSE]

\* the session after the call and the value returned
advance_roleplay_scenario(st) ==
    IF ~st.active THEN [state |-> st, ret |-> FALSE]
    ELSE LET current == st.scenario
             emotions == st.scenario_emotions
         IN  IF current < Len(emotions)
             THEN [state |-> [st EXCEPT !.scenario = current + 1,
                                        !.character_emotion = emotions[current + 1]],
                   ret |-> TRUE]
             ELSE [state |-> st, ret |-> FALSE]

\* variant: a session that is already inactive is wiped to the initial record
end_roleplay_wiping_when_inactive(st) ==
    IF st.active
    THEN update_roleplay_state(st, <<FALSE>>, <<>>, <<>>, <<0>>, <<<<>>>>,
             <<[speed |-> Unit, pitch |-> "medium"]>>)
    ELSE RoleplayDefault

\* character=None and character_emotion=None are passed, which
\* update_roleplay_state reads as "leave alone"
end_roleplay(st) ==
    update_roleplay_state(st, <<FALSE>>, <<>>, <<>>, <<0>>, <<<<>>>>,
        <<[speed |-> Unit, pitch |-> "medium"]>>)

set_roleplay_emotion(st, emotion) ==
    update_roleplay_state(st, <<>>, <<>>, <<emotion>>, <<>>, <<>>, <<>>)

\* ------------------------------------------------------- Modulation Stage
TextKinds == {"TextFrame", "TTSTextFrame"}

\* variant: the provider's exception is not caught
_get_current_state_uncaught(snapshot, fetch_ok) ==
    [raised |-> ~fetch_ok,
     state |-> IF fetch_ok THEN map_sable_to_emotive_state(snapshot)
               ELSE NeutralVoiceState]

\* variant: when the provider raises, the snapshot at hand is mapped all the same
_get_current_state_stale_snapshot(snapshot, fetch_ok) ==
    [raised |-> FALSE, state |-> map_sable_to_emotive_state(snapshot)]

\* the provider's answer is mapped; an exception of the provider is caught
\* and answered with the neutral state, so nothing is raised to the caller
_get_current_state(snapshot, fetch_ok) ==
    [raised |-> FALSE,
     state |-> IF fetch_ok THEN map_sable_to_emotive_state(snapshot)
               ELSE NeutralVoiceState]

\* variant: the callback's exception is not caught
try_update_tts_config_uncaught(config, update_ok) ==
    [raised |-> ~update_ok, installed |-> IF update_ok THEN <<config>> ELSE <<>>]

\* try: await self._update_tts_config(config) / except Exception: log
try_update_tts_config(config, update_ok) ==
    [raised |-> FALSE, installed |-> IF update_ok THEN <<config>> ELSE <<>>]

\* variant: the debrief emotion is not looked at
_is_roleplay_active_any_emotion(roleplay_state) == roleplay_state.active

\* variant: an emotion the roleplay map does not know falls back to normal mode
_is_roleplay_active_needing_mapped_emotion(roleplay_state) ==
    /\ roleplay_state.active
    /\ roleplay_state.character_emotion # "neutral"
    /\ map_roleplay_emotion(roleplay_state.character_emotion) # None

_is_roleplay_active(roleplay_state) ==
    roleplay_state.active /\ roleplay_state.character_emotion # "neutral"

\* variant: the emotion is looked up in the sequence at the scenario number
_get_roleplay_ssml_from_scenario(roleplay_state) ==
    IF ~roleplay_state.active THEN <<>>
    ELSE generate_roleplay_ssml(
            IF roleplay_state.scenario \in 1..Len(roleplay_state.scenario_emotions)
            THEN roleplay_state.scenario_emotions[roleplay_state.scenario]
            ELSE roleplay_state.character_emotion,
            roleplay_state.voice_modifiers.speed,
            IF roleplay_state.character \notin {None, ""}
            THEN 105 * Hundredth ELSE Unit)

\* None (session not active) is the empty prefix: both are falsy at the caller
_get_roleplay_ssml(roleplay_state) ==
    IF ~roleplay_state.active THEN <<>>
    ELSE generate_roleplay_ssml(
            roleplay_state.character_emotion,
            roleplay_state.voice_modifiers.speed,
            IF roleplay_state.character \notin {None, ""}
            THEN 105 * Hundredth ELSE Unit)

\* variant: a turn boundary leaves the once-per-utterance flag as it is
turn_boundary_keeping_flag(was_applied, opening) ==
    [applied |-> was_applied, in_llm_response |-> opening]

\* self._in_llm_response = opening; self._emotion_applied_for_utterance = False
turn_boundary(was_applied, opening) ==
    [applied |-> FALSE, in_llm_response |-> opening]

\* variant: the use_ssml switch is not consulted
should_apply_ignoring_ssml(ssml, was_applied) == ~was_applied

\* variant: the once-per-utterance flag is not consulted
should_apply_forgetting_flag(ssml, was_applied) == ssml

\* if self._use_ssml and not self._emotion_applied_for_utterance
should_apply(ssml, was_applied) == ssml /\ ~was_applied

\* variant: the fetch is left to run on its own and the caller goes on
can_begin_detached(suspended, max_calls) == TRUE

\* `state = await self._get_current_state()` suspends the call and, with it,
\* whoever awaits process_frame; a caller that awaits one call at a time
\* (max_calls = 1) begins the next call only when none is suspended
can_begin(suspended, max_calls) == Cardinality(suspended) < max_calls

\* variant: the new frame is always a plain TextFrame
Prefixed_as_plain_text(frame, ssml_prefix) ==
    [kind |-> "TextFrame", text |-> ssml_prefix \o frame.text]

\* f"{ssml_prefix} {original_text}" in a new frame of the incoming kind
Prefixed(frame, ssml_prefix) ==
    [kind |-> IF frame.kind = "TTSTextFrame" THEN "TTSTextFrame" ELSE "TextFrame",
     text |-> ssml_prefix \o frame.text]

\* What a call of process_frame reports: the processor's fields after it, the
\* frames it pushed, the mode it chose, the provider fetches it made, the
\* configs it handed to update_tts_config, the config the callback installed
\* (none when the callback raised) and the calls that raised (each caught and
\* logged).  Untouched is the report of a call that only pushes the frame on.
Untouched(was_applied, was_in_llm, frame) ==
    [applied |-> was_applied, in_llm_response |-> was_in_llm,
     pushed |-> <<frame>>, mode |-> "none", fetched |-> 0,
     updates |-> <<>>, installed |-> <<>>, failed |-> {}]

\* the normal branch from `state = await self._get_current_state()` to the end
tag_with_state(same, ssml, snapshot, frame, fetch_ok, update_ok) ==
    LET got == _get_current_state(snapshot, fetch_ok)
        state == got.state
        ssml_prefix == generate_ssml_prefix(state, ssml)
        config == generate_cartesia_config(state)
        upd == try_update_tts_config(config, update_ok)
        failed == (IF fetch_ok THEN {} ELSE {"fetch"})
                  \cup (IF update_ok THEN {} ELSE {"update"})
    IN  IF got.raised
        THEN \* an exception leaves process_frame before push_frame
             [same EXCEPT !.mode = "normal", !.fetched = 1,
                          !.pushed = <<>>, !.failed = {"fetch"}]
        ELSE IF upd.raised
        THEN [same EXCEPT !.mode = "normal", !.fetched = 1,
                          !.pushed = <<>>, !.applied = TRUE,
                          !.updates = <<config>>, !.failed = failed]
        ELSE [same EXCEPT
                !.mode = "normal",
                !.fetched = 1,
                !.pushed = IF ssml_prefix # <<>>
                           THEN <<Prefixed(frame, ssml_prefix)>>
                           ELSE <<frame>>,
                !.applied = TRUE,
                !.updates = <<config>>,
                !.installed = upd.installed,
                !.failed = failed]

\* One call of process_frame, run from its first line to its last.
process_frame(ssml, was_applied, was_in_llm, roleplay_state, snapshot, frame, direction, fetch_ok, update_ok) ==
    LET same == Untouched(was_applied, was_in_llm, frame)
    IN  IF direction # "DOWNSTREAM" THEN same
        ELSE IF frame.kind = "LLMFullResponseStartFrame"
             THEN [same EXCEPT
                     !.in_llm_response = turn_boundary(was_applied, TRUE).in_llm_response,
                     !.applied = turn_boundary(was_applied, TRUE).applied]
        ELSE IF frame.kind = "LLMFullResponseEndFrame"
             THEN [same EXCEPT
                     !.in_llm_response = turn_boundary(was_applied, FALSE).in_llm_response,
                     !.applied = turn_boundary(was_applied, FALSE).applied]
        ELSE IF frame.kind \notin TextKinds THEN same
        ELSE IF _is_roleplay_active(roleplay_state)
             THEN LET ssml_prefix == _get_roleplay_ssml(roleplay_state)
                  IN  IF should_apply(ssml, was_applied) /\ ssml_prefix # <<>>
                      THEN [same EXCEPT !.mode = "roleplay",
                                        !.pushed = <<Prefixed(frame, ssml_prefix)>>,
                                        !.applied = TRUE]
                      ELSE [same EXCEPT !.mode = "roleplay"]
        ELSE IF should_apply(ssml, was_applied)
             THEN tag_with_state(same, ssml, snapshot, frame, fetch_ok, update_ok)
        ELSE [same EXCEPT !.mode = "normal"]

\* whether this call comes to `await self._get_current_state()`
reaches_fetch(ssml, was_applied, roleplay_state, frame) ==
    process_frame(ssml, was_applied, FALSE, roleplay_state, EmotionalDefault,
                  frame, "DOWNSTREAM", TRUE, TRUE).fetched = 1

\* bot.update_tts_emotion, the update_tts_config callback
update_tts_emotion(config) ==
    [emotion |-> config.emotion, speed |-> config.speed, volume |-> config.volume]

\* ------------------------------------------------- MCP client start-up
\* mcp_config.MCP_SERVERS, in the order the dict is iterated
MCP_SERVERS == <<"sable", "imessage", "journal">>

\* what MCPClient(...) and client.register_tools(llm) do for one server: raise,
\* return None, or return a ToolsSchema with no, one or two standard_tools
RegisterOutcomes == {"raises", "none", "empty", "one", "two"}
standard_tools(name, outcome) ==
    CASE outcome = "one" -> <<[server |-> name, tool |-> 1]>>
      [] outcome = "two" -> <<[server |-> name, tool |-> 1], [server |-> name, tool |-> 2]>>
      [] OTHER -> <<>>

\* before the loop of initialize_mcp_clients; attempts is the observation of
\* the servers tried so far, each with what it did
NotStarted ==
    [next |-> 1, available_servers |-> <<>>, failed_servers |-> <<>>,
     all_standard_tools |-> <<>>, attempts |-> <<>>]

\* variant: the exception of a server is not caught and ends the loop
connect_uncaught(m, name, outcome) ==
    IF outcome = "raises"
    THEN [m EXCEPT !.next = Len(MCP_SERVERS) + 1,
                   !.attempts = Append(@, [name |-> name, outcome |-> outcome])]
    ELSE [m EXCEPT !.next = @ + 1,
                   !.available_servers = Append(@, name),
                   !.all_standard_tools = @ \o standard_tools(name, outcome),
                   !.attempts = Append(@, [name |-> name, outcome |-> outcome])]

\* one iteration of the loop: try ... except Exception
connect(m, name, outcome) ==
    IF outcome = "raises"
    THEN [m EXCEPT !.next = @ + 1,
                   !.failed_servers = Append(@, <<name, "error">>),
                   !.attempts = Append(@, [name |-> name, outcome |-> outcome])]
    ELSE [m EXCEPT !.next = @ + 1,
                   !.available_servers = Append(@, name),
                   !.all_standard_tools = @ \o standard_tools(name, outcome),
                   !.attempts = Append(@, [name |-> name, outcome |-> outcome])]

\* ------------------------------------------------------ tool call results
\* `await params.result_callback(result)` at the end of a roleplay handler:
\* the acknowledgments the caller receives, each with the session as it is
\* when it is delivered.  `before` is the session when the handler was entered,
\* `after` the one its transition left.
\* variant: the handler acknowledges first and applies the transition after
handler_acks_before_transition(before, after) ==
    <<[status |-> "success", session |-> before]>>

handler_acks(before, after) ==
    <<[status |-> "success", session |-> after]>>

\* The result a tool hands to its callback.  form is "None", "unparsable"
\* (no JSON in it) or "json"; data is what json.loads gives: a dict whose keys
\* are present (<<v>>) or absent (<<>>).  current_state is null or a dict with
\* primary_emotions present or absent.
EmptyDict == [current_state |-> <<>>, emotions |-> <<>>, body_state |-> <<>>]
NoResult == [form |-> "None", data |-> EmptyDict]

\* None is <<>>
_extract_mcp_result(result) ==
    IF result.form = "json" THEN <<result.data>> ELSE <<>>

\* the snapshot a get_emotional_state answer is read as by the mapper
AsSnapshot(state_data) ==
    [emotions |-> Get(state_data.emotions, <<>>), body_state |-> state_data.body_state]

\* variant: a feel_emotion result also resets the body state
log_mcp_tool_call_dropping_body_state(snapshot, tool_name, result) ==
    LET data == _extract_mcp_result(result)
        truthy == data # <<>> /\ data[1] # EmptyDict
    IN  CASE tool_name = "get_emotional_state" /\ truthy -> AsSnapshot(data[1])
          [] tool_name = "feel_emotion" /\ truthy /\ data[1].current_state # <<>> ->
                LET current == data[1].current_state[1]
                IN  IF current.null THEN snapshot
                    ELSE [emotions |-> Get(current.primary_emotions, <<>>),
                          body_state |-> <<>>]
          [] OTHER -> snapshot

\* log_mcp_tool_call(tool_name, args, result): the shared snapshot after it.
\* An exception while reading the result is caught and leaves the snapshot.
log_mcp_tool_call(snapshot, tool_name, result) ==
    LET data == _extract_mcp_result(result)
        truthy == data # <<>> /\ data[1] # EmptyDict
    IN  CASE tool_name = "get_emotional_state" /\ truthy -> AsSnapshot(data[1])
          [] tool_name = "feel_emotion" /\ truthy /\ data[1].current_state # <<>> ->
                LET current == data[1].current_state[1]
                IN  IF current.null THEN snapshot
                    ELSE [emotions |-> Get(current.primary_emotions, <<>>),
                          body_state |-> snapshot.body_state]
          [] OTHER -> snapshot

\* variant: the result is handed to the original callback first
capturing_callback_delivering_first(snapshot, tool_name, result) ==
    [snapshot |-> log_mcp_tool_call(snapshot, tool_name, result),
     delivered |-> <<[result |-> result, snapshot |-> snapshot]>>]

\* capturing_callback: log_mcp_tool_call(name, arguments, result), then
\* `await original_callback(result)`.  delivered lists the results handed to
\* the original callback, each with the shared snapshot as it is at that time.
capturing_callback(snapshot, tool_name, result) ==
    [snapshot |-> log_mcp_tool_call(snapshot, tool_name, result),
     delivered |-> <<[result |-> result,
                      snapshot |-> log_mcp_tool_call(snapshot, tool_name, result)]>>]

\* logging_wrapper: log_mcp_tool_call(name, arguments) without a result, then
\* the tool, whose result comes back through capturing_callback
logging_wrapper(snapshot, tool_name, result) ==
    capturing_callback(log_mcp_tool_call(snapshot, tool_name, NoResult), tool_name, result)

\* variant: the stage ends the session when the response has ended
session_after_frame_ending_at_turn_end(roleplay_state, frame, direction) ==
    IF frame.kind = "LLMFullResponseEndFrame" /\ direction = "DOWNSTREAM"
    THEN end_roleplay(roleplay_state) ELSE roleplay_state

\* The session after a call of process_frame: the stage only reads the dict
\* that get_roleplay_state hands it, with .get, and assigns nothing in it.
session_after_frame(roleplay_state, frame, direction) == roleplay_state

\* ------------------------------------------------------------ observation
NoFrame == [kind |-> "none", text |-> <<>>]
Quiet ==
    [op |-> "init", ret |-> "none", character |-> None, seq |-> <<>>,
     emotion |-> None, before |-> RoleplayDefault, mode |-> "none", fetched |-> 0,
     updates |-> <<>>, failed |-> {}, in |-> NoFrame, dir |-> "none", out |-> <<>>,
     was_applied |-> FALSE, session |-> 0,
     acks |-> <<>>, tool |-> None, result |-> NoResult, snapshot |-> EmotionalDefault,
     delivered |-> <<>>]
\* a call of operation op on session `before` that returned ret
Called(op, ret, before) == [Quiet EXCEPT !.op = op, !.ret = ret, !.before = before]

\* ----------------------------------------------------------------- inputs
Characters == {"Mom"}
SeqEmotions == {"angry", "receptive"}
EmotionSeqs == UNION {[1..n -> SeqEmotions] : n \in 0..MaxSeq}
SetEmotions == {"neutral", "hurt", "zany", "Neutral"}

\* arguments of the tool calls; a missing key is <<>>
StartArgs ==
    {[character |-> <<"Mom">>, first_emotion |-> <<"angry">>,
      second_emotion |-> <<"receptive">>],
     [character |-> <<"Mom">>, first_emotion |-> <<"neutral">>,
      second_emotion |-> <<"hurt">>],
     [character |-> <<"">>, first_emotion |-> <<"zany">>,
      second_emotion |-> <<"angry">>],
     [character |-> <<>>, first_emotion |-> <<>>, second_emotion |-> <<>>]}
SetArgs == {[emotion |-> <<e>>] : e \in SetEmotions} \cup {[emotion |-> <<>>]}

StageStartArgs ==
    {[character |-> <<"Mom">>, first_emotion |-> <<"angry">>,
      second_emotion |-> <<"receptive">>],
     [character |-> <<"">>, first_emotion |-> <<"zany">>,
      second_emotion |-> <<"angry">>]}
StageSetArgs == {[emotion |-> <<"zany">>], [emotion |-> <<>>]}

Texts == {<<Word("hi")>>, <<Word("")>>}
Frames ==
    {[kind |-> k, text |-> <<>>] :
        k \in {"LLMFullResponseStartFrame", "LLMFullResponseEndFrame", "TTSStartedFrame"}}
    \cup {[kind |-> k, text |-> t] : k \in TextKinds, t \in Texts}
Directions == {"DOWNSTREAM", "UPSTREAM"}

StageSnapshots ==
    {EmotionalDefault,
     [emotions |-> <<[type |-> "joy", intensity |-> 90]>>,
      body_state |-> <<[tension |-> 20, energy |-> 80]>>]}

\* frames that arrive when the calls are followed step by step
StepFrames ==
    {[kind |-> "LLMFullResponseStartFrame", text |-> <<>>],
     [kind |-> "LLMFullResponseEndFrame", text |-> <<>>],
     [kind |-> "TextFrame", text |-> <<Word("hi")>>]}

StepStartArgs ==
    {[character |-> <<"Mom">>, first_emotion |-> <<"angry">>,
      second_emotion |-> <<"receptive">>]}

\* tools whose results come back through capturing_callback
ToolNames == {"get_emotional_state", "feel_emotion", "analyze_emotion"}
PrimaryLists == {<<>>, <<[type |-> "anger", intensity |-> 80]>>}
CurrentStates ==
    {[null |-> TRUE, primary_emotions |-> <<>>]}
    \cup {[null |-> FALSE, primary_emotions |-> p] :
             p \in {<<>>} \cup {<<l>> : l \in PrimaryLists}}
ToolData ==
    {EmptyDict}
    \cup {[current_state |-> <<c>>, emotions |-> <<>>, body_state |-> <<>>] :
             c \in CurrentStates}
    \cup {[current_state |-> <<>>, emotions |-> <<e>>, body_state |-> b] :
             e \in {<<[type |-> "sadness", intensity |-> 60]>>},
             b \in {<<>>, <<[tension |-> 70, energy |-> 30]>>}}
ToolResults ==
    {NoResult, [form |-> "unparsable", data |-> EmptyDict]}
    \cup {[form |-> "json", data |-> d] : d \in ToolData}

\* run_bot calls alive in the process at the same time
Sessions == {1, 2}
InitialGenerationConfig == [emotion |-> "neutral", speed |-> <<>>, volume |-> <<>>]
\* no run_bot call in this slot; LiveStage is what run_bot constructs
NoStage ==
    [live |-> FALSE, applied |-> FALSE, in_llm_response |-> FALSE,
     generation_config |-> InitialGenerationConfig]
LiveStage == [NoStage EXCEPT !.live = TRUE]

\* ------------------------------------ the mapper and encoders as functions
\* 1.0 in the hundredths that intensity, tension and energy are given in
FullScale == 100
\* longest emotion list of a snapshot
MaxEmotions == 3

\* the thresholds of the mapper with their neighbours, and the ends of [0, 1]
IntensityLevels == {0, 34, 35, 40, 41, 50, 51, 60, 61, 69, 70, 71, 80, 81, 90, FullScale}
TensionLevels == {0, 20, 60, 61, 70, FullScale}
EnergyLevels == {0, 10, 29, 30, 31, 39, 40, 50, 69, 70, 71, 80, FullScale}
\* the values of PrimaryEmotion and two strings that are none of them
Categories == PrimaryEmotion \cup {"bliss", "Joy"}
BodyStates ==
    {<<>>} \cup {<<[tension |-> t, energy |-> e]>> : t \in TensionLevels, e \in EnergyLevels}

\* one emotion, every category at every level, with and without body_state
SingleSnapshots ==
    {[emotions |-> <<[type |-> c, intensity |-> i]>>, body_state |-> b] :
        c \in Categories, i \in IntensityLevels, b \in BodyStates}
\* every energy of [0, 1]
EnergySweep ==
    {[emotions |-> <<>>,
      body_state |-> <<[tension |-> BodyStateDefaultTension, energy |-> e]>>] :
        e \in 0..FullScale}
\* every intensity and tension from below their thresholds up to 1.0
VolumeSweep ==
    {[emotions |-> <<[type |-> "anger", intensity |-> i]>>,
      body_state |-> <<[tension |-> t, energy |-> BodyStateDefaultEnergy]>>] :
        i \in 60..FullScale, t \in 50..FullScale}
\* several emotions, some of equal intensity
ListedEmotions ==
    {[type |-> c, intensity |-> i] : c \in {"joy", "anger", "bliss"}, i \in {50, 90}}
ListSnapshots ==
    {[emotions |-> l, body_state |-> <<>>] :
        l \in UNION {[1..n -> ListedEmotions] : n \in 0..MaxEmotions}}
MapperSnapshots == SingleSnapshots \cup EnergySweep \cup VolumeSweep \cup ListSnapshots

\* arguments of generate_roleplay_ssml: ratios at, inside and outside the
\* tolerance around 1.0
RoleplayStrings == {"angry", "receptive", "dismissive", "zany", "neutral", "Neutral", " angry"}
RatioLevels == {r * Hundredth : r \in {50, 94, 95, 96, 100, 104, 105, 106, 200}}

NoInput ==
    [kind |-> "none", snapshot |-> EmotionalDefault, emotion |-> None,
     speed |-> Unit, volume |-> Unit]
MapperInputs ==
    {[NoInput EXCEPT !.kind = "snapshot", !.snapshot = s] : s \in MapperSnapshots}
EncoderInputs ==
    {[NoInput EXCEPT !.kind = "roleplay", !.emotion = e, !.speed = s, !.volume = v] :
        e \in RoleplayStrings, s \in RatioLevels, v \in RatioLevels}

\* the directive of a snapshot: the state the mapper returns, the label and
\* ratios computed from it, and its two encodings
\* at: the TTS settings and the session at the time of the call; again: what
\* a second encoding of the same state returned, with its own `at`
NoDirective ==
    [done |-> FALSE, state |-> NeutralVoiceState, label |-> None, speed |-> Unit,
     volume |-> Unit, markup |-> <<>>, config |-> InitialGenerationConfig,
     at |-> [tts_config |-> InitialGenerationConfig, session |-> RoleplayDefault],
     again |-> <<>>]

\* ---------------------------------------------------------- initial state
\* the process after import, before any call
InitProgram ==
    /\ roleplay = RoleplayDefault
    /\ emotional = EmotionalDefault
    /\ tts_config = InitialGenerationConfig
    /\ use_ssml \in BOOLEAN
    /\ applied = FALSE
    /\ in_llm_response = FALSE
    /\ last = Quiet
    /\ advRun = -1
    /\ windowFrags = 0
    /\ windowTagged = 0
    /\ windowFetches = 0
    /\ windowUpdates = 0
    /\ windowFailures = {}
    /\ inbox = <<>>
    /\ running = {}
    /\ outbox = <<>>
    /\ fetchLog = <<>>
    /\ arrivals = 0
    /\ windowNo = 0
    /\ raced = {}
    /\ waited = {}
    /\ stages = [s \in Sessions |-> NoStage]
    /\ touched = {}
    /\ turn = <<>>

Init ==
    /\ InitProgram
    /\ input = NoInput
    /\ directive = NoDirective
    /\ mcp = NotStarted

\* ---------------------------------------------------------------- actions
\* start_roleplay called directly
StartRoleplay(character, scenario_emotions) ==
    /\ roleplay' = start_roleplay(roleplay, character, scenario_emotions)
    /\ last' = [Called("start", "none", roleplay) EXCEPT
                    !.character = character, !.seq = scenario_emotions]
    /\ advRun' = 0
    /\ UNCHANGED <<emotional, stageVars, coVars, sessVars, mapVars, mcp, turn>>

\* handle_start_roleplay: the start_roleplay tool call
HandleStartRoleplay(args) ==
    LET character == Get(args.character, "Character")
        first_emotion == Get(args.first_emotion, "angry")
        second_emotion == Get(args.second_emotion, "receptive")
    IN  /\ roleplay' = start_roleplay(roleplay, character,
                                      <<first_emotion, second_emotion>>)
        /\ last' = [Called("start", "success", roleplay) EXCEPT
                        !.character = character,
                        !.seq = <<first_emotion, second_emotion>>,
                        !.acks = handler_acks(roleplay,
                                     start_roleplay(roleplay, character,
                                                    <<first_emotion, second_emotion>>))]
        /\ advRun' = 0
        /\ UNCHANGED <<emotional, stageVars, coVars, sessVars, mapVars, mcp, turn>>

AdvanceRoleplayScenario ==
    LET r == advance_roleplay_scenario(roleplay)
    IN  /\ roleplay' = r.state
        /\ last' = Called("advance", IF r.ret THEN "true" ELSE "false", roleplay)
        /\ advRun' = IF advRun < 0 THEN -1 ELSE Min(advRun + 1, MaxSeq + 1)
        /\ UNCHANGED <<emotional, stageVars, coVars, sessVars, mapVars, mcp, turn>>

\* handle_set_roleplay_emotion: the set_roleplay_emotion tool call
HandleSetRoleplayEmotion(args) ==
    /\ roleplay' = set_roleplay_emotion(roleplay, Get(args.emotion, "neutral"))
    /\ last' = [Called("set_emotion", "success", roleplay) EXCEPT
                    !.emotion = Get(args.emotion, "neutral"),
                    !.acks = handler_acks(roleplay,
                                 set_roleplay_emotion(roleplay, Get(args.emotion, "neutral")))]
    /\ advRun' = -1
    /\ UNCHANGED <<emotional, stageVars, coVars, sessVars, mapVars, mcp, turn>>

\* handle_end_roleplay: the end_roleplay tool call
HandleEndRoleplay ==
    /\ roleplay' = end_roleplay(roleplay)
    /\ last' = [Called("end", "success", roleplay) EXCEPT
                    !.acks = handler_acks(roleplay, end_roleplay(roleplay))]
    /\ advRun' = -1
    /\ UNCHANGED <<emotional, stageVars, coVars, sessVars, mapVars, mcp, turn>>

UpdateEmotionalState(state) ==
    /\ emotional' = state
    /\ last' = Called("update_state", "none", roleplay)
    /\ UNCHANGED <<roleplay, advRun, stageVars, coVars, sessVars, mapVars, mcp, turn>>

\* EmotiveTTSProcessor.process_frame with the callbacks bot.py gives it:
\* get_emotional_state returns the shared snapshot or raises, update_tts_emotion
\* installs the config or raises
CallProcessFrame(frame, direction, fetch_ok, update_ok) ==
    LET fragment == direction = "DOWNSTREAM" /\ frame.kind \in TextKinds
        boundary == direction = "DOWNSTREAM"
                    /\ frame.kind \in {"LLMFullResponseStartFrame",
                                       "LLMFullResponseEndFrame"}
        r == process_frame(use_ssml, applied, in_llm_response, roleplay, emotional,
                           frame, direction, fetch_ok, update_ok)
    IN  /\ fragment => windowFrags < MaxFrags
        \* the outcome of a call that is not made is no input
        /\ r.fetched = 0 => fetch_ok
        /\ r.updates = <<>> => update_ok
        /\ roleplay' = session_after_frame(roleplay, frame, direction)
        /\ applied' = r.applied
        /\ in_llm_response' = r.in_llm_response
        /\ tts_config' = IF r.installed # <<>> THEN update_tts_emotion(r.installed[1])
                         ELSE tts_config
        /\ last' = [Called("frame", "none", roleplay) EXCEPT
                        !.mode = r.mode, !.fetched = r.fetched,
                        !.updates = r.updates, !.failed = r.failed,
                        !.in = frame, !.dir = direction, !.out = r.pushed,
                        !.was_applied = applied]
        /\ windowFrags' = IF boundary THEN 0
                          ELSE IF fragment THEN windowFrags + 1 ELSE windowFrags
        /\ windowTagged' = IF boundary THEN 0
                           ELSE IF fragment /\ r.pushed # <<frame>>
                                THEN windowTagged + 1 ELSE windowTagged
        /\ windowFetches' = IF boundary THEN 0 ELSE windowFetches + r.fetched
        /\ windowUpdates' = IF boundary THEN 0 ELSE windowUpdates + Len(r.updates)
        /\ windowFailures' = IF boundary THEN {} ELSE windowFailures \cup r.failed
        /\ UNCHANGED <<emotional, use_ssml, advRun, coVars, sessVars, mapVars, mcp>>

ProcessFrame(frame, direction, fetch_ok, update_ok) ==
    /\ CallProcessFrame(frame, direction, fetch_ok, update_ok)
    /\ UNCHANGED turn

\* the prefix of the turn after a call: none after a turn boundary, the one
\* this call attached with the session it read, else as before
turn_after(was, session, frame, direction, pushed) ==
    IF direction = "DOWNSTREAM"
       /\ frame.kind \in {"LLMFullResponseStartFrame", "LLMFullResponseEndFrame"}
    THEN <<>>
    ELSE IF pushed # <<>> /\ pushed # <<frame>>
    THEN <<[markup |-> SubSeq(pushed[1].text, 1, Len(pushed[1].text) - Len(frame.text)),
            session |-> session]>>
    ELSE was

\* process_frame, with the prefix of the turn kept for the observer
ProcessFrameInTurn(frame, direction, fetch_ok, update_ok) ==
    /\ CallProcessFrame(frame, direction, fetch_ok, update_ok)
    /\ turn' = turn_after(turn, roleplay, frame, direction, last'.out)

\* ---------------------------------------------------------- specifications
\* the stage in its pipeline, with the tool calls that reach the session
Next ==
    \/ \E frame \in Frames, direction \in Directions, fetch_ok, update_ok \in BOOLEAN :
           ProcessFrame(frame, direction, fetch_ok, update_ok)
    \/ \E state \in StageSnapshots : UpdateEmotionalState(state)
    \/ \E args \in StageStartArgs : HandleStartRoleplay(args)
    \/ AdvanceRoleplayScenario
    \/ \E args \in StageSetArgs : HandleSetRoleplayEmotion(args)
    \/ HandleEndRoleplay

Spec == Init /\ [][Next]_vars

\* a wrapped tool handler is invoked and its tool answers with result
ToolResult(tool_name, result) ==
    LET r == logging_wrapper(emotional, tool_name, result)
    IN  /\ emotional' = r.snapshot
        /\ last' = [Called("tool_result", "none", roleplay) EXCEPT
                        !.tool = tool_name, !.result = result,
                        !.snapshot = emotional, !.delivered = r.delivered]
        /\ UNCHANGED <<roleplay, advRun, stageVars, coVars, sessVars, mapVars, mcp, turn>>

\* the tools of a conversation: a roleplay session started and ended, the
\* tools whose results are captured, and the frames of the replies in between
NextTools ==
    \/ \E tool_name \in ToolNames, result \in ToolResults : ToolResult(tool_name, result)
    \/ \E args \in StepStartArgs : HandleStartRoleplay(args)
    \/ HandleEndRoleplay
    \/ \E frame \in StepFrames, fetch_ok \in BOOLEAN :
           ProcessFrame(frame, "DOWNSTREAM", fetch_ok, TRUE)

SpecTools == Init /\ [][NextTools]_vars

\* the turns of a roleplay: the session is started, moved on, set and ended
\* between the frames of the replies
NextTurn ==
    \/ \E frame \in StepFrames, fetch_ok \in BOOLEAN :
           ProcessFrameInTurn(frame, "DOWNSTREAM", fetch_ok, TRUE)
    \/ \E args \in StepStartArgs : HandleStartRoleplay(args)
    \/ AdvanceRoleplayScenario
    \/ \E args \in StageSetArgs : HandleSetRoleplayEmotion(args)
    \/ HandleEndRoleplay

SpecTurn == Init /\ [][NextTurn]_vars

\* the roleplay session under every call of its operations
NextSession ==
    \/ \E character \in Characters, scenario_emotions \in EmotionSeqs :
           StartRoleplay(character, scenario_emotions)
    \/ \E args \in StartArgs : HandleStartRoleplay(args)
    \/ AdvanceRoleplayScenario
    \/ \E args \in SetArgs : HandleSetRoleplayEmotion(args)
    \/ HandleEndRoleplay

SpecSession == Init /\ [][NextSession]_vars

\* ------------------------------------------- process_frame step by step
\* A downstream frame reaches the stage and waits for its call.
Arrive(frame) ==
    LET boundary == frame.kind \in {"LLMFullResponseStartFrame",
                                    "LLMFullResponseEndFrame"}
        window == IF boundary THEN windowNo + 1 ELSE windowNo
    IN  /\ arrivals < MaxArrivals
        /\ arrivals' = arrivals + 1
        /\ windowNo' = window
        /\ inbox' = Append(inbox, [n |-> arrivals + 1, window |-> window,
                                   frame |-> frame])
        /\ waited' = IF running # {} THEN waited \cup {arrivals + 1} ELSE waited
        /\ UNCHANGED <<roleplay, emotional, last, advRun, stageVars, sessVars,
                       running, outbox, fetchLog, raced, mapVars, mcp, turn>>

\* process_frame is called with the oldest waiting frame and runs to its first
\* suspension: to the provider fetch when the frame is a text fragment in
\* normal mode with the flag clear, to push_frame at its end otherwise.
BeginCall(max_calls) ==
    /\ inbox # <<>>
    /\ can_begin(running, max_calls)
    /\ LET call == Head(inbox)
           r == process_frame(use_ssml, applied, in_llm_response, roleplay,
                              emotional, call.frame, "DOWNSTREAM", TRUE, TRUE)
       IN  /\ inbox' = Tail(inbox)
           /\ raced' = IF /\ call.frame.kind \in TextKinds
                          /\ \E c \in running : c.window = call.window
                       THEN raced \cup {call.window} ELSE raced
           /\ IF reaches_fetch(use_ssml, applied, roleplay, call.frame)
              THEN /\ running' = running \cup {call}
                   /\ fetchLog' = Append(fetchLog, call.window)
                   /\ UNCHANGED <<applied, in_llm_response, outbox>>
              ELSE /\ applied' = r.applied
                   /\ in_llm_response' = r.in_llm_response
                   /\ outbox' = Append(outbox, call)
                   /\ UNCHANGED <<running, fetchLog>>
    /\ UNCHANGED <<roleplay, emotional, tts_config, use_ssml, last, advRun,
                   windowVars, arrivals, windowNo, waited, sessVars, mapVars, mcp, turn>>

\* The provider answers (or raises) and the suspended call runs on to its end:
\* prefix, flag, config update, push_frame.
FetchReturns(call, fetch_ok, update_ok) ==
    LET r == tag_with_state(Untouched(applied, in_llm_response, call.frame),
                            use_ssml, emotional, call.frame, fetch_ok, update_ok)
    IN  /\ call \in running
        /\ running' = running \ {call}
        /\ applied' = r.applied
        /\ tts_config' = IF r.installed # <<>> THEN update_tts_emotion(r.installed[1])
                         ELSE tts_config
        /\ outbox' = IF r.pushed # <<>> THEN Append(outbox, call) ELSE outbox
        /\ UNCHANGED <<roleplay, emotional, use_ssml, in_llm_response, last, advRun,
                       windowVars, inbox, fetchLog, arrivals, windowNo, raced,
                       waited, sessVars, mapVars, mcp, turn>>

\* the stage in the pipeline bot.py builds: frames are handed to process_frame
\* one at a time, each call awaited before the next frame is taken
NextSerial ==
    \/ \E frame \in StepFrames : Arrive(frame)
    \/ BeginCall(1)
    \/ \E call \in running, fetch_ok, update_ok \in BOOLEAN :
           FetchReturns(call, fetch_ok, update_ok)
    \/ \E args \in StepStartArgs : HandleStartRoleplay(args)
    \/ HandleEndRoleplay

SpecSerial == Init /\ [][NextSerial]_vars

\* process_frame called again while earlier calls are suspended at the fetch
NextOverlap ==
    \/ \E frame \in StepFrames : Arrive(frame)
    \/ BeginCall(MaxCalls)
    \/ \E call \in running, fetch_ok, update_ok \in BOOLEAN :
           FetchReturns(call, fetch_ok, update_ok)
    \/ \E args \in StepStartArgs : HandleStartRoleplay(args)
    \/ HandleEndRoleplay

SpecOverlap == Init /\ [][NextOverlap]_vars

\* ------------------------------------ several voice sessions, one process
\* run_bot for a new client: a tts and an EmotiveTTSProcessor are constructed
\* and wired to get_emotional_state and get_roleplay_state, which read the
\* module's globals.  Nothing in run_bot writes _roleplay_state or
\* _current_emotional_state.
RunBot(s) ==
    /\ ~stages[s].live
    /\ stages' = [stages EXCEPT ![s] = LiveStage]
    /\ last' = [Called("run_bot", "none", roleplay) EXCEPT !.session = s]
    /\ UNCHANGED <<roleplay, emotional, advRun, stageVars, coVars, touched, mapVars, mcp, turn>>

\* on_client_disconnected: await task.cancel()
OnClientDisconnected(s) ==
    /\ stages[s].live
    /\ stages' = [stages EXCEPT ![s] = NoStage]
    /\ last' = [Called("disconnect", "none", roleplay) EXCEPT !.session = s]
    /\ UNCHANGED <<roleplay, emotional, advRun, stageVars, coVars, touched, mapVars, mcp, turn>>

\* handle_start_roleplay registered on session s's llm
SessionStartRoleplay(s, args) ==
    LET character == Get(args.character, "Character")
        first_emotion == Get(args.first_emotion, "angry")
        second_emotion == Get(args.second_emotion, "receptive")
    IN  /\ stages[s].live
        /\ roleplay' = start_roleplay(roleplay, character,
                                      <<first_emotion, second_emotion>>)
        /\ touched' = touched \cup {s}
        /\ last' = [Called("start", "success", roleplay) EXCEPT
                        !.character = character,
                        !.seq = <<first_emotion, second_emotion>>,
                        !.session = s,
                        !.acks = handler_acks(roleplay,
                                     start_roleplay(roleplay, character,
                                                    <<first_emotion, second_emotion>>))]
        /\ UNCHANGED <<emotional, advRun, stageVars, coVars, stages, mapVars, mcp, turn>>

\* handle_end_roleplay registered on session s's llm
SessionEndRoleplay(s) ==
    /\ stages[s].live
    /\ roleplay' = end_roleplay(roleplay)
    /\ touched' = touched \cup {s}
    /\ last' = [Called("end", "success", roleplay) EXCEPT
                    !.session = s,
                    !.acks = handler_acks(roleplay, end_roleplay(roleplay))]
    /\ UNCHANGED <<emotional, advRun, stageVars, coVars, stages, mapVars, mcp, turn>>

\* capturing_callback of session s's feel_emotion / get_emotional_state tool
SessionUpdateEmotionalState(s, state) ==
    /\ stages[s].live
    /\ emotional' = state
    /\ touched' = touched \cup {s}
    /\ last' = [Called("update_state", "none", roleplay) EXCEPT !.session = s]
    /\ UNCHANGED <<roleplay, advRun, stageVars, coVars, stages, mapVars, mcp, turn>>

\* process_frame of session s's processor (use_ssml=True as run_bot passes)
SessionProcessFrame(s, frame) ==
    LET r == process_frame(TRUE, stages[s].applied, stages[s].in_llm_response,
                           roleplay, emotional, frame, "DOWNSTREAM", TRUE, TRUE)
    IN  /\ stages[s].live
        /\ stages' = [stages EXCEPT
                        ![s].applied = r.applied,
                        ![s].in_llm_response = r.in_llm_response,
                        ![s].generation_config =
                            IF r.installed # <<>> THEN update_tts_emotion(r.installed[1])
                            ELSE @]
        /\ last' = [Called("frame", "none", roleplay) EXCEPT
                        !.mode = r.mode, !.fetched = r.fetched,
                        !.updates = r.updates, !.failed = r.failed,
                        !.in = frame, !.dir = "DOWNSTREAM", !.out = r.pushed,
                        !.was_applied = stages[s].applied, !.session = s]
        /\ UNCHANGED <<roleplay, emotional, advRun, stageVars, coVars, touched, mapVars, mcp, turn>>

NextSessions ==
    \/ \E s \in Sessions : RunBot(s)
    \/ \E s \in Sessions : OnClientDisconnected(s)
    \/ \E s \in Sessions, args \in StepStartArgs : SessionStartRoleplay(s, args)
    \/ \E s \in Sessions : SessionEndRoleplay(s)
    \/ \E s \in Sessions, state \in StageSnapshots : SessionUpdateEmotionalState(s, state)
    \/ \E s \in Sessions, frame \in StepFrames : SessionProcessFrame(s, frame)

SpecSessions == Init /\ [][NextSessions]_vars

\* ------------------------------------------------- MCP client start-up
\* initialize_mcp_clients, one iteration of `for name, params in MCP_SERVERS.items()`
ConnectServer(outcome) ==
    /\ mcp.next <= Len(MCP_SERVERS)
    /\ mcp' = connect(mcp, MCP_SERVERS[mcp.next], outcome)
    /\ UNCHANGED <<roleplay, emotional, last, advRun, stageVars, coVars, sessVars,
                   mapVars, turn>>

NextMcp == \E outcome \in RegisterOutcomes : ConnectServer(outcome)

SpecMcp == Init /\ [][NextMcp]_vars

\* ------------------------------------ the mapper and encoders as functions
\* a call with arguments drawn from the input sets
InitMapper ==
    /\ InitProgram
    /\ input \in MapperInputs \cup EncoderInputs
    /\ directive = NoDirective
    /\ mcp = NotStarted

\* map_sable_to_emotive_state, then both encodings of the state it returns
MapSnapshot ==
    /\ input.kind = "snapshot"
    /\ ~directive.done
    /\ LET state == map_sable_to_emotive_state(input.snapshot)
       IN  directive' =
               [done |-> TRUE, state |-> state,
                label |-> select_cartesia_emotion(state),
                speed |-> calculate_speed_modifier(state),
                volume |-> calculate_volume_modifier(state),
                markup |-> generate_ssml_prefix(state, TRUE),
                config |-> generate_cartesia_config(state),
                at |-> [tts_config |-> tts_config, session |-> roleplay],
                again |-> <<>>]
    /\ UNCHANGED <<roleplay, emotional, last, advRun, stageVars, coVars, sessVars, input, mcp, turn>>

\* generate_roleplay_ssml(emotion, speed, volume)
EncodeRoleplay ==
    /\ input.kind = "roleplay"
    /\ ~directive.done
    /\ directive' =
           [NoDirective EXCEPT
               !.done = TRUE,
               !.label = map_roleplay_emotion(input.emotion),
               !.speed = input.speed,
               !.volume = input.volume,
               !.markup = generate_roleplay_ssml(input.emotion, input.speed, input.volume)]
    /\ UNCHANGED <<roleplay, emotional, last, advRun, stageVars, coVars, sessVars, input, mcp, turn>>

NextMapper ==
    \/ MapSnapshot
    \/ EncodeRoleplay

SpecMapper == InitMapper /\ [][NextMapper]_vars

\* generate_ssml_prefix and generate_cartesia_config called a second time on
\* the state the first call encoded
EncodeAgain ==
    /\ directive.done
    /\ directive.again = <<>>
    /\ directive' =
           [directive EXCEPT
               !.again = <<[markup |-> generate_ssml_prefix(directive.state, TRUE),
                            config |-> generate_cartesia_config(directive.state),
                            at |-> [tts_config |-> tts_config, session |-> roleplay]]>>]
    /\ UNCHANGED <<roleplay, emotional, last, advRun, stageVars, coVars, sessVars, input, mcp, turn>>

ReencodeInputs ==
    {[NoInput EXCEPT !.kind = "snapshot", !.snapshot = s] : s \in StageSnapshots}

InitReencode ==
    /\ InitProgram
    /\ input \in ReencodeInputs
    /\ directive = NoDirective
    /\ mcp = NotStarted

\* the two encodings, with the stage at work and the session started and
\* ended before, between and after them
NextReencode ==
    \/ MapSnapshot
    \/ EncodeAgain
    \/ \E frame \in StepFrames, fetch_ok \in BOOLEAN :
           ProcessFrame(frame, "DOWNSTREAM", fetch_ok, TRUE)
    \/ \E state \in StageSnapshots : UpdateEmotionalState(state)
    \/ \E args \in StepStartArgs : HandleStartRoleplay(args)
    \/ HandleEndRoleplay

SpecReencode == InitReencode /\ [][NextReencode]_vars

\* ----------------------------------------------------------------- claims
IsTextFragment ==
    last.op = "frame" /\ last.dir = "DOWNSTREAM" /\ last.in.kind \in TextKinds

IsSuffix(t, u) ==
    Len(t) <= Len(u) /\ SubSeq(u, Len(u) - Len(t) + 1, Len(u)) = t

\* out is the markup tags of a non-empty prefix followed by the text `in`
IsPrefixed(in, out) ==
    /\ Len(out) > Len(in)
    /\ IsSuffix(in, out)
    /\ \A i \in 1..(Len(out) - Len(in)) : out[i].tag \in {"emotion", "speed", "volume"}

\* C1: with markup injection enabled, once an open turn has carried N >= 1 text
\* fragments exactly one of them was pushed with markup prepended and every
\* other one with its text as it came in, in normal mode, in roleplay mode and
\* with roleplay tool calls between the fragments.
ExactlyOnceTagging ==
    /\ (use_ssml /\ in_llm_response /\ windowFrags >= 1) => windowTagged = 1
    /\ (use_ssml /\ IsTextFragment) =>
          /\ Len(last.out) = 1
          /\ \/ last.out[1].text = last.in.text
             \/ IsPrefixed(last.in.text, last.out[1].text)

TaggedOnceThenPassedInRoleplay ==
    /\ use_ssml /\ in_llm_response /\ IsTextFragment
    /\ windowFrags = 2 /\ windowTagged = 1
    /\ last.mode = "roleplay" /\ last.out = <<last.in>>

\* C2: every frame handed to process_frame is pushed on exactly once, of the
\* kind it came in and with its text kept, also when the provider fails and
\* when the configuration update fails.
PushedExactlyOnce ==
    last.op = "frame" =>
        /\ Len(last.out) = 1
        /\ last.out[1].kind = last.in.kind
        /\ IsSuffix(last.in.text, last.out[1].text)

PushedDespiteBothFailures ==
    /\ IsTextFragment /\ last.failed = {"fetch", "update"}
    /\ Len(last.out) = 1 /\ last.out[1].text # last.in.text

\* C3: a text fragment is handled in roleplay mode exactly when the session is
\* active and its current emotion is not "neutral"; an active session in
\* debrief and an inactive session are handled in normal mode.
ModeSelection ==
    IsTextFragment =>
        /\ last.mode \in {"roleplay", "normal"}
        /\ last.mode = "roleplay" <=>
              (roleplay.active /\ roleplay.character_emotion # "neutral")

DebriefHandledInNormalMode ==
    /\ IsTextFragment /\ roleplay.active /\ roleplay.character_emotion = "neutral"
    /\ last.mode = "normal" /\ last.fetched = 1

\* C4: end() leaves the session at the canonical inactive record, whatever the
\* state it is called in.
EndYieldsCanonicalRecord ==
    last.op = "end" =>
        /\ roleplay.active = FALSE
        /\ roleplay.character = None
        /\ roleplay.scenario = 0
        /\ roleplay.scenario_emotions = <<>>
        /\ roleplay.character_emotion = None

\* C5: an inactive session has scenario 0, no scenario emotions and no current
\* emotion.
InactiveIsCleared ==
    ~roleplay.active =>
        /\ roleplay.scenario = 0
        /\ roleplay.scenario_emotions = <<>>
        /\ roleplay.character_emotion = None

\* C6: start with an empty emotion sequence is rejected with InvalidArgument:
\* the session is left as it was and no emotion is substituted.
EmptyStartIsRejected ==
    (last.op = "start" /\ last.seq = <<>>) =>
        /\ last.ret = "InvalidArgument"
        /\ roleplay = last.before

\* C7: after start with a sequence of length N and nothing but advances since,
\* the k-th advance for 1 <= k <= N-1 returns true and moves to scenario k+1
\* and the (k+1)-th emotion; every later advance returns false and leaves the
\* session as it was.
AdvanceWalksTheSequence ==
    (last.op = "advance" /\ advRun >= 1) =>
        IF advRun <= Len(last.before.scenario_emotions) - 1
        THEN /\ last.ret = "true"
             /\ roleplay = [last.before EXCEPT
                               !.scenario = advRun + 1,
                               !.character_emotion =
                                   last.before.scenario_emotions[advRun + 1]]
        ELSE /\ last.ret = "false"
             /\ roleplay = last.before

SecondAdvanceRefused ==
    /\ last.op = "advance" /\ advRun = 2 /\ last.ret = "false"
    /\ roleplay.scenario_emotions = <<"angry", "receptive">>
    /\ roleplay.scenario = 2 /\ roleplay.character_emotion = "receptive"

\* C8: the scenario index never exceeds the number of scenario emotions.
ScenarioWithinSequence ==
    roleplay.scenario <= Len(roleplay.scenario_emotions)

\* C9: start with a non-empty sequence, in whatever state it is called, leaves
\* the session active with the given character, scenario 1, the given
\* sequence, its first entry as current emotion, speed 1.05 and pitch medium.
StartYieldsFirstScenario ==
    (last.op = "start" /\ last.seq # <<>>) =>
        roleplay = [active |-> TRUE, character |-> last.character,
                    character_emotion |-> last.seq[1], scenario |-> 1,
                    scenario_emotions |-> last.seq,
                    voice_modifiers |-> [speed |-> 105 * Hundredth,
                                         pitch |-> "medium"]]

RestartedFromLaterScenario ==
    /\ last.op = "start" /\ last.seq # <<>>
    /\ last.before.active /\ last.before.scenario = 2
    /\ roleplay.scenario = 1

\* C10: setEmotion(e) on an active session writes e to the current emotion and
\* nothing else, also for e = "neutral" and for e outside the sequence.
SetEmotionWritesOnlyEmotion ==
    (last.op = "set_emotion" /\ last.before.active) =>
        roleplay = [last.before EXCEPT !.character_emotion = last.emotion]

SetEmotionInSecondScenario ==
    /\ last.op = "set_emotion" /\ last.before.active
    /\ last.before.scenario = 2 /\ last.emotion = "hurt"
    /\ roleplay.character_emotion = "hurt" /\ roleplay.scenario = 2

\* C11: end() is idempotent: from every reachable session, ending twice gives
\* the session that ending once gives, and an end() observed on a session that
\* end() produced leaves it as it is.
EndIsIdempotent ==
    /\ end_roleplay(end_roleplay(roleplay)) = end_roleplay(roleplay)
    /\ last.op = "end" => end_roleplay(roleplay) = roleplay

EndedTwiceWithCharacterKept ==
    /\ last.op = "end" /\ ~last.before.active /\ last.before.character = "Mom"
    /\ roleplay = last.before /\ roleplay.character_emotion = "receptive"

\* C12: when the provider raises in a normal-mode fetch, nothing is raised to
\* the caller: the fragment is pushed with the markup of the neutral,
\* zero-intensity state, the same state's config goes to the updater, the
\* flag is set, and no later fragment of the turn fetches again.
FetchFailureDegradesToNeutral ==
    /\ (IsTextFragment /\ "fetch" \in last.failed) =>
          /\ last.mode = "normal"
          /\ last.out = <<[kind |-> last.in.kind,
                           text |-> <<EmotionTag("calm")>> \o last.in.text]>>
          /\ last.updates = <<[emotion |-> "calm", speed |-> <<>>, volume |-> <<>>]>>
          /\ applied
    /\ "fetch" \in windowFailures => (applied /\ windowFetches = 1)

PassedAfterFailedFetch ==
    /\ "fetch" \in windowFailures /\ emotional # EmotionalDefault
    /\ IsTextFragment /\ windowFrags = 2
    /\ last.mode = "normal" /\ last.fetched = 0 /\ last.out = <<last.in>>

\* C13: when update_tts_config raises, the fragment that caused the call is
\* still pushed with its markup, the flag stays set, and the update is not
\* tried again on later fragments of the turn.
UpdateFailureIgnored ==
    /\ (IsTextFragment /\ "update" \in last.failed) =>
          /\ Len(last.out) = 1
          /\ last.out[1].kind = last.in.kind
          /\ IsPrefixed(last.in.text, last.out[1].text)
          /\ applied
    /\ "update" \in windowFailures => (applied /\ windowUpdates = 1)

PassedAfterFailedUpdate ==
    /\ "update" \in windowFailures /\ "fetch" \notin windowFailures
    /\ IsTextFragment /\ windowFrags = 2
    /\ last.updates = <<>> /\ last.out = <<last.in>>

\* C14: every fragment pushed with markup prepended comes with exactly one
\* call of update_tts_config, whose config carries the emotion of the markup,
\* in roleplay mode as in normal mode.
UpdaterCalledForEveryTaggedFragment ==
    (IsTextFragment /\ Len(last.out) = 1 /\ last.out[1].text # last.in.text) =>
        /\ Len(last.updates) = 1
        /\ last.out[1].text[1].tag = "emotion" =>
              last.updates[1].emotion = last.out[1].text[1].value

\* C15: a downstream LLMFullResponseStartFrame and a downstream
\* LLMFullResponseEndFrame each clear the flag, whatever the mode and whatever
\* the flag was, so that the first text fragment after a boundary is tagged.
TurnBoundaryClearsFlag ==
    /\ (/\ last.op = "frame" /\ last.dir = "DOWNSTREAM"
        /\ last.in.kind \in {"LLMFullResponseStartFrame", "LLMFullResponseEndFrame"}) =>
          /\ ~applied
          /\ in_llm_response <=> last.in.kind = "LLMFullResponseStartFrame"
    /\ (use_ssml /\ IsTextFragment /\ windowFrags = 1) =>
          /\ Len(last.out) = 1
          /\ IsPrefixed(last.in.text, last.out[1].text)
          /\ applied

SetFlagClearedAtTurnEndInRoleplay ==
    /\ last.op = "frame" /\ last.dir = "DOWNSTREAM"
    /\ last.in.kind = "LLMFullResponseEndFrame"
    /\ last.was_applied /\ ~applied /\ _is_roleplay_active(roleplay)

\* C16: a fragment that arrives while the session is active with an emotion
\* other than "neutral" makes no provider fetch, and what is pushed is the
\* fragment as it came or with the markup built from the session alone.
RoleplayNeverFetches ==
    (IsTextFragment /\ last.before.active
        /\ last.before.character_emotion # "neutral") =>
        /\ last.fetched = 0
        /\ last.failed = {}
        /\ Len(last.out) = 1
        /\ last.out[1].text \in
              {last.in.text, _get_roleplay_ssml(last.before) \o last.in.text}

RoleplayTaggedBesideJoySnapshot ==
    /\ IsTextFragment /\ last.mode = "roleplay" /\ last.fetched = 0
    /\ emotional # EmotionalDefault
    /\ last.before.character_emotion = "zany"
    /\ last.out[1].text = <<SpeedTag(105)>> \o last.in.text

\* fetches started for window w
FetchesIn(w) == Cardinality({i \in 1..Len(fetchLog) : fetchLog[i] = w})

\* C17 as stated: at most one fetch is started per turn, also when a second
\* fragment of the turn begins processing while the first is suspended at its
\* fetch.
AtMostOneFetchPerTurn ==
    \A w \in 0..MaxArrivals : FetchesIn(w) <= 1

\* C17, amended: at most one fetch is started per turn as long as no fragment
\* of the turn begins processing while another one is suspended at its fetch.
\* The flag is set only when the fetch has returned, so in a turn where that
\* happens in normal mode a second fetch is started.
AtMostOneFetchPerTurnUnlessRaced ==
    /\ \A w \in 0..MaxArrivals : w \notin raced => FetchesIn(w) <= 1
    /\ \A c, d \in running : c.window = d.window /\ c # d => c.window \in raced

TwoFragmentsOneFetch ==
    /\ raced = {} /\ use_ssml /\ running = {} /\ inbox = <<>>
    /\ fetchLog = <<1>>
    /\ Len(outbox) = 3
    /\ \A i \in {2, 3} : outbox[i].frame.kind \in TextKinds /\ outbox[i].window = 1

SessionsDoNotShareState ==
    (IsTextFragment /\ last.session \in Sessions /\ last.session \notin touched) =>
        /\ last.mode = "normal"
        /\ last.out[1].text \in {last.in.text, <<EmotionTag("calm")>> \o last.in.text}

\* C20: when a voice session ends its roleplay session is reset, so that a
\* session started while no other session is alive finds the roleplay session
\* inactive.
SessionEndResetsRoleplay ==
    /\ (last.op = "disconnect" /\ \A s \in Sessions : ~stages[s].live) =>
          ~roleplay.active
    /\ (last.op = "run_bot" /\ \A s \in Sessions \ {last.session} : ~stages[s].live) =>
          ~roleplay.active

\* ------------------------------ claims about the mapper and the encoders
\* the mapper was called on the snapshot drawn
Mapped == input.kind = "snapshot" /\ directive.done
\* the entry of a non-empty snapshot that the mapper selects
Selected(snapshot) == snapshot.emotions[PrimaryIndex(snapshot.emotions)]
HasTag(markup, t) == \E i \in 1..Len(markup) : markup[i].tag = t
TagRank(t) == CASE t = "emotion" -> 1 [] t = "speed" -> 2 [] t = "volume" -> 3 [] OTHER -> 0

\* C21: the markup of a directive at rest (neutral, intensity 0, speed 1.0,
\* volume 1.0, as produced from an empty snapshot) is empty: no tag at all,
\* not even an emotion tag.
AtRestMarkupIsEmpty ==
    (/\ Mapped
     /\ directive.state.primary_emotion = "neutral"
     /\ directive.state.intensity = 0
     /\ directive.speed = Unit
     /\ directive.volume = Unit) => directive.markup = <<>>

\* C22: an empty snapshot (no emotions, no body state) maps to the label of
\* the low neutral band, "calm", with speed exactly 1.0 and volume exactly
\* 1.0; without physiological data the speed is always 1.0.
EmptySnapshotMapsToCalm ==
    /\ (Mapped /\ input.snapshot.emotions = <<>> /\ input.snapshot.body_state = <<>>) =>
          /\ directive.state.primary_emotion = "neutral"
          /\ directive.state.intensity = 0
          /\ directive.label = CARTESIA_EMOTION_MAP["neutral"].low
          /\ directive.label = "calm"
          /\ directive.speed = Unit
          /\ directive.volume = Unit
    /\ (Mapped /\ input.snapshot.body_state = <<>>) => directive.speed = Unit
    /\ calculate_speed_modifier(NeutralVoiceState) = Unit

EmptySnapshotMapped ==
    /\ Mapped
    /\ input.snapshot.emotions = <<>> /\ input.snapshot.body_state = <<>>
    /\ directive.label = "calm" /\ directive.config.speed = <<>>

\* C23: non-empty markup has an emotion tag as its first tag, for every
\* directive of normal mode and for every roleplay emotion string.
NonEmptyMarkupStartsWithEmotionTag ==
    (directive.done /\ directive.markup # <<>>) => directive.markup[1].tag = "emotion"

\* C24: the markup lists its tags in the order emotion, speed, volume, at
\* most one per attribute; the speed tag is there iff |speed - 1.0| > 0.05
\* and the volume tag iff |volume - 1.0| > 0.05 (as the doubles compare, see
\* OutsideTolerance).
MarkupInFixedOrder ==
    directive.done =>
        LET markup == directive.markup
        IN  /\ \A i \in 1..Len(markup) : TagRank(markup[i].tag) > 0
            /\ \A i, j \in 1..Len(markup) :
                   i < j => TagRank(markup[i].tag) < TagRank(markup[j].tag)
            /\ HasTag(markup, "speed") <=> OutsideTolerance(directive.speed)
            /\ HasTag(markup, "volume") <=> OutsideTolerance(directive.volume)

ThreeTagsAtTheTolerance ==
    /\ directive.done /\ input.kind = "roleplay"
    /\ input.speed = Unit + Tolerance /\ input.volume = Unit - Tolerance
    /\ directive.markup = <<EmotionTag("content"), SpeedTag(105), VolumeTag(95)>>

\* C25: the config of a directive always has an emotion, has a speed iff
\* |speed - 1.0| > 0.05 and a volume iff |volume - 1.0| > 0.05, and agrees
\* with the markup of the same directive: same label, and speed and volume
\* in the config exactly when their tags are in the markup.
ConfigAgreesWithMarkup ==
    Mapped =>
        LET config == directive.config
            markup == directive.markup
        IN  /\ config.emotion # None
            /\ config.emotion = directive.label
            /\ (config.speed # <<>>) <=> OutsideTolerance(directive.speed)
            /\ (config.volume # <<>>) <=> OutsideTolerance(directive.volume)
            /\ markup[1] = EmotionTag(config.emotion)
            /\ (config.speed # <<>>) <=> HasTag(markup, "speed")
            /\ (config.volume # <<>>) <=> HasTag(markup, "volume")
            /\ \A i \in 1..Len(markup) :
                   /\ markup[i].tag = "speed" => config.speed = <<markup[i].ratio>>
                   /\ markup[i].tag = "volume" => config.volume = <<markup[i].ratio>>

ConfigWithSpeedOnly ==
    /\ Mapped
    /\ directive.config.speed # <<>> /\ directive.config.volume = <<>>
    /\ Len(directive.markup) = 2

\* C26: from a non-empty snapshot the mapper selects an entry of maximum
\* intensity, and among those of maximum intensity the first in input order.
SelectsFirstMaximum ==
    (Mapped /\ input.snapshot.emotions # <<>>) =>
        LET emotions == input.snapshot.emotions
        IN  \E i \in 1..Len(emotions) :
                /\ \A j \in 1..Len(emotions) :
                       emotions[j].intensity <= emotions[i].intensity
                /\ \A j \in 1..(i - 1) : emotions[j].intensity < emotions[i].intensity
                /\ directive.state.intensity = emotions[i].intensity
                /\ directive.state.primary_emotion =
                       PrimaryEmotionOrNeutral(emotions[i].type)

FirstOfTwoMaximaSelected ==
    /\ Mapped
    /\ input.snapshot.emotions =
           <<[type |-> "anger", intensity |-> 50], [type |-> "joy", intensity |-> 90],
             [type |-> "anger", intensity |-> 90]>>
    /\ directive.state.primary_emotion = "joy"

\* C27: the mapper returns a directive for every snapshot, and a selected
\* entry whose category is none of joy, sadness, anger, fear, disgust,
\* surprise, neutral gives the primary emotion neutral.
UnknownCategoryFallsBackToNeutral ==
    /\ input.kind = "snapshot" =>
          map_sable_to_emotive_state(input.snapshot).primary_emotion \in PrimaryEmotion
    /\ Mapped =>
          /\ directive.state = map_sable_to_emotive_state(input.snapshot)
          /\ directive.label # None
    /\ (/\ Mapped
        /\ input.snapshot.emotions # <<>>
        /\ Selected(input.snapshot).type \notin PrimaryEmotion) =>
          /\ directive.state.primary_emotion = "neutral"
          /\ directive.state.intensity = Selected(input.snapshot).intensity
          /\ directive.label \in {"calm", "neutral"}

UnknownCategoryMapped ==
    /\ Mapped
    /\ input.snapshot.emotions = <<[type |-> "bliss", intensity |-> 90]>>
    /\ directive.state.primary_emotion = "neutral"
    /\ directive.label = "calm"

\* C28: the speed depends on the energy only: below 0.3 it is
\* 0.8 + (energy/0.3)*0.15, in [0.8, 0.95); above 0.7 it is
\* 1.05 + ((energy-0.7)/0.3)*0.25, in (1.05, 1.3]; from 0.3 to 0.7 it is
\* 0.95 + ((energy-0.3)/0.4)*0.1, in [0.95, 1.05]; and it does not decrease
\* as the energy grows over [0, 1].
SpeedFollowsEnergy ==
    (Mapped /\ input.snapshot.body_state # <<>>) =>
        LET energy == input.snapshot.body_state[1].energy
            speed == directive.speed
            at(e) == [directive.state EXCEPT !.body_state[1].energy = e]
        IN  /\ energy < 30 =>
                   /\ 30 * speed = (30 * 80 * Hundredth) + (energy * 15 * Hundredth)
                   /\ 80 * Hundredth <= speed /\ speed < 95 * Hundredth
            /\ energy > 70 =>
                   /\ 30 * speed = (30 * 105 * Hundredth) + ((energy - 70) * 25 * Hundredth)
                   /\ 105 * Hundredth < speed /\ speed <= 130 * Hundredth
            /\ (30 <= energy /\ energy <= 70) =>
                   /\ 40 * speed = (40 * 95 * Hundredth) + ((energy - 30) * 10 * Hundredth)
                   /\ 95 * Hundredth <= speed /\ speed <= 105 * Hundredth
            /\ \A e \in 0..energy : calculate_speed_modifier(at(e)) <= speed

FullEnergyAtTopSpeed ==
    /\ Mapped
    /\ input.snapshot.body_state # <<>>
    /\ input.snapshot.body_state[1].energy = FullScale
    /\ directive.speed = 130 * Hundredth

\* C29: for every primary emotion and every intensity, tension and energy in
\* [0, 1] the speed and the volume of the directive lie in [0.5, 2.0]; the
\* volume is 1.0 unless tension > 0.6 or intensity > 0.7 and never below 1.0.
RatiosWithinRange ==
    Mapped =>
        LET tension == directive.state.body_state[1].tension
        IN  /\ Unit \div 2 <= directive.speed /\ directive.speed <= 2 * Unit
            /\ Unit \div 2 <= directive.volume /\ directive.volume <= 2 * Unit
            /\ directive.volume >= Unit
            /\ ~(tension > 60 \/ directive.state.intensity > 70) => directive.volume = Unit

TenseAndIntenseIsLoudest ==
    /\ Mapped
    /\ directive.state.intensity = FullScale
    /\ directive.state.body_state[1].tension = FullScale
    /\ directive.volume = (1308 * Unit) \div 1000

\* C30: a refined label overrides the label of the three bands: a snapshot
\* whose strongest emotion is joy above 0.8 gives "enthusiastic", never
\* "happy" or "excited", whatever the body state, and with energy 0.8 its
\* speed lies in [1.05, 1.3].
StrongJoyIsEnthusiastic ==
    /\ (Mapped /\ directive.state.nuanced_emotion # None) =>
          directive.label = directive.state.nuanced_emotion
    /\ (/\ Mapped
        /\ input.snapshot.emotions # <<>>
        /\ Selected(input.snapshot).type = "joy"
        /\ Selected(input.snapshot).intensity > 80) =>
          /\ directive.label = "enthusiastic"
          /\ (/\ input.snapshot.body_state # <<>>
              /\ input.snapshot.body_state[1].energy = 80) =>
                 /\ 105 * Hundredth <= directive.speed
                 /\ directive.speed <= 130 * Hundredth

StrongJoyAtHighEnergy ==
    /\ Mapped
    /\ input.snapshot.emotions = <<[type |-> "joy", intensity |-> 90]>>
    /\ input.snapshot.body_state = <<[tension |-> 20, energy |-> 80]>>
    /\ directive.label = "enthusiastic"
    /\ 3 * directive.speed = 340 * Hundredth

\* ----------------------------------------------- claims about the start-up
Names(list) == {list[i] : i \in 1..Len(list)}
FailedNames == {mcp.failed_servers[i][1] : i \in 1..Len(mcp.failed_servers)}

\* C34: every configured server is attempted exactly once and ends in exactly
\* one of the two result lists; a server that fails does not keep the later
\* ones from being attempted nor their tools from being collected.
McpStartupDegradesGracefully ==
    /\ \A i \in 1..Len(mcp.attempts) : mcp.attempts[i].name = MCP_SERVERS[i]
    /\ Len(mcp.attempts) = mcp.next - 1
    /\ mcp.next <= Len(MCP_SERVERS) => ENABLED NextMcp
    /\ Len(mcp.available_servers) + Len(mcp.failed_servers) = Len(mcp.attempts)
    /\ \A i \in 1..Len(mcp.attempts) :
           LET name == mcp.attempts[i].name
           IN  /\ (name \in Names(mcp.available_servers)) # (name \in FailedNames)
               /\ (name \in FailedNames) <=> mcp.attempts[i].outcome = "raises"
               /\ \A t \in Names(standard_tools(name, mcp.attempts[i].outcome)) :
                      t \in Names(mcp.all_standard_tools)
    /\ \A t \in Names(mcp.all_standard_tools) : t.server \in Names(mcp.available_servers)

LaterServersOutliveAFailure ==
    /\ mcp.next = Len(MCP_SERVERS) + 1
    /\ mcp.failed_servers = <<<<"sable", "error">>>>
    /\ mcp.available_servers = <<"imessage", "journal">>
    /\ Len(mcp.all_standard_tools) = 3

\* ------------------------------------------------ claims about refinement
Refined == {"joy", "sadness", "anger", "fear", "surprise"}
\* the label of the three bands: low below 0.35, medium below 0.7, else high
BandLabel(primary, intensity) ==
    IF intensity < 35 THEN CARTESIA_EMOTION_MAP[primary].low
    ELSE IF intensity < 70 THEN CARTESIA_EMOTION_MAP[primary].medium
    ELSE CARTESIA_EMOTION_MAP[primary].high

\* C40: for joy, sadness, anger, fear and surprise the refinement gives a
\* label at every intensity and body state, so the table of three bands gives
\* the label only for disgust and neutral and for the state used when the
\* provider fails.
RefinementCoversFiveEmotions ==
    /\ Mapped =>
          LET st == directive.state
          IN  /\ st.primary_emotion \in Refined =>
                     /\ st.nuanced_emotion # None
                     /\ directive.label = st.nuanced_emotion
              /\ st.primary_emotion \in {"disgust", "neutral"} =>
                     /\ st.nuanced_emotion = None
                     /\ directive.label = BandLabel(st.primary_emotion, st.intensity)
    /\ \A p \in Refined, i \in IntensityLevels : infer_nuanced_emotion(p, i, <<>>) # None
    /\ NeutralVoiceState.nuanced_emotion = None
    /\ select_cartesia_emotion(NeutralVoiceState) = BandLabel("neutral", 0)

DisgustLabelledByTable ==
    /\ Mapped
    /\ directive.state.primary_emotion = "disgust"
    /\ directive.state.intensity = 70
    /\ directive.state.nuanced_emotion = None
    /\ directive.label = "contempt"

\* ------------------------------------------- claims about the tool surface
ControlOps == {"start", "advance", "set_emotion", "end"}
\* the session a roleplay handler leaves, from the session it was entered with
\* and the arguments it read
Transition(call) ==
    CASE call.op = "start" -> start_roleplay(call.before, call.character, call.seq)
      [] call.op = "set_emotion" -> set_roleplay_emotion(call.before, call.emotion)
      [] call.op = "end" -> end_roleplay(call.before)

\* C32: each call of the start_roleplay, set_roleplay_emotion and end_roleplay
\* handlers applies its session transition and then hands exactly one
\* acknowledgment with status "success" to its caller; when the acknowledgment
\* is delivered the session is already the one the transition left.
HandlersAcknowledgeAfterTransition ==
    last.op \in {"start", "set_emotion", "end"} =>
        /\ roleplay = Transition(last)
        /\ Len(last.acks) = 1
        /\ last.acks[1].status = "success"
        /\ last.acks[1].session = roleplay

StartAcknowledgedWithActiveSession ==
    /\ last.op = "start" /\ ~last.before.active
    /\ Len(last.acks) = 1 /\ last.acks[1].status = "success"
    /\ last.acks[1].session.active /\ last.acks[1].session.character = "Mom"

\* C33: a call of process_frame, for a frame of any kind in either direction,
\* leaves the roleplay session as it was; the session changes only in a call
\* of start, advance, set_emotion or end.
SessionWrittenOnlyByControl ==
    [][/\ last'.op = "frame" => roleplay' = roleplay
       /\ roleplay' # roleplay => last'.op \in ControlOps]_vars

RoleplayFragmentLeavesSession ==
    /\ IsTextFragment /\ last.mode = "roleplay"
    /\ last.out # <<last.in>>
    /\ roleplay.active /\ roleplay = last.before

\* the markup a text fragment is tagged with in the mode it was handled in
MarkupOfMode ==
    IF last.mode = "roleplay" THEN _get_roleplay_ssml(roleplay)
    ELSE generate_ssml_prefix(_get_current_state(emotional, "fetch" \notin last.failed).state,
                              use_ssml)

\* C36: the text of a tagged fragment is the markup followed by the original
\* text unchanged, in one frame of the kind that came in: a TTSTextFrame stays
\* a TTSTextFrame and a TextFrame stays a TextFrame.
TaggedTextIsMarkupThenOriginal ==
    (IsTextFragment /\ last.out # <<last.in>>) =>
        /\ Len(last.out) = 1
        /\ last.out[1].kind = last.in.kind
        /\ MarkupOfMode # <<>>
        /\ last.out[1].text = MarkupOfMode \o last.in.text

TaggedTtsFrameStaysTtsFrame ==
    /\ IsTextFragment /\ last.in.kind = "TTSTextFrame"
    /\ Len(last.out) = 1 /\ last.out[1].kind = "TTSTextFrame"
    /\ Len(last.out[1].text) > Len(last.in.text)
    /\ last.mode = "normal"

\* C37: with use_ssml false no fragment is modified, the provider is never
\* fetched, update_tts_config is never called and the once-per-utterance flag
\* never becomes true, in normal mode and in roleplay mode.
DisabledMarkupIsPassThrough ==
    ~use_ssml =>
        /\ ~applied
        /\ windowTagged = 0 /\ windowFetches = 0 /\ windowUpdates = 0
        /\ tts_config = InitialGenerationConfig
        /\ last.op = "frame" =>
              /\ last.out = <<last.in>>
              /\ last.fetched = 0
              /\ last.updates = <<>>

DisabledMarkupPassesEmotionalFragment ==
    /\ ~use_ssml /\ IsTextFragment /\ in_llm_response
    /\ last.mode = "normal" /\ emotional # EmotionalDefault
    /\ last.out = <<last.in>> /\ last.fetched = 0

\* what a result carries for the snapshot, if it carries anything
Carried(tool_name, result) ==
    IF result.form # "json" \/ result.data = EmptyDict THEN <<>>
    ELSE IF tool_name = "get_emotional_state" THEN <<"state">>
    ELSE IF tool_name = "feel_emotion" /\ result.data.current_state # <<>>
            /\ ~result.data.current_state[1].null THEN <<"emotions">>
    ELSE <<>>

FeelEmotionKeepsBodyState ==
    last.op = "tool_result" =>
        /\ (last.tool = "feel_emotion"
            /\ Carried(last.tool, last.result) = <<"emotions">>) =>
              /\ emotional.emotions =
                    Get(last.result.data.current_state[1].primary_emotions, <<>>)
              /\ emotional.body_state = last.snapshot.body_state
        /\ Carried(last.tool, last.result) = <<>> => emotional = last.snapshot

FeelEmotionAfterBodyStateUpdate ==
    /\ last.op = "tool_result" /\ last.tool = "feel_emotion"
    /\ last.snapshot.body_state = <<[tension |-> 70, energy |-> 30]>>
    /\ last.snapshot.emotions = <<[type |-> "sadness", intensity |-> 60]>>
    /\ emotional.emotions = <<[type |-> "anger", intensity |-> 80]>>
    /\ emotional.body_state = <<[tension |-> 70, energy |-> 30]>>

\* -------------------------------------------- claims about roleplay turns
\* the markup of a session: the tag of its character emotion, its speed, and
\* the volume raised by 5% when a character is named
SessionMarkup(session) ==
    generate_roleplay_ssml(session.character_emotion, session.voice_modifiers.speed,
                           IF session.character \notin {None, ""}
                           THEN 105 * Hundredth ELSE Unit)

\* C35: in roleplay mode the first fragment of a turn that finds the flag
\* clear is tagged with the markup of the session as it is at that call, so a
\* set_emotion, advance or start before it shows in the markup; once the turn
\* is tagged, every fragment is pushed as it came until the next turn
\* boundary, whatever is done to the session in between.
RoleplayMarkupFromSessionAtFirstFragment ==
    /\ (IsTextFragment /\ use_ssml /\ last.mode = "roleplay" /\ ~last.was_applied) =>
          /\ last.out[1].text = SessionMarkup(roleplay) \o last.in.text
          /\ turn = <<[markup |-> SessionMarkup(roleplay), session |-> roleplay]>>
          /\ turn[1].markup # <<>>
    /\ (IsTextFragment /\ last.was_applied) => last.out = <<last.in>>
    /\ turn # <<>> => applied

LaterSetEmotionWaitsForNextTurn ==
    /\ IsTextFragment /\ last.mode = "roleplay" /\ last.was_applied
    /\ turn # <<>>
    /\ turn[1].session.active
    /\ turn[1].session.character_emotion = "angry"
    /\ roleplay.character_emotion = "zany"
    /\ last.out = <<last.in>>

====
